---- MODULE Spec2Model ----
(***************************************************************************)
(* A model of the filter engine of jsonplotter: the filters of filters.py  *)
(* (MovingMedian, MovingAverage, MedianCentering, MeanCentering,           *)
(* MinCentering), the filter chain of plotter.py (FiltersModel) and the    *)
(* parameter popup that edits a filter's attributes (ParametersPopup).     *)
(*                                                                         *)
(* Numbers.  The program computes on Python floats.  The model computes on *)
(* exact rationals <<n, d>> in lowest terms with d > 0, plus the one value *)
(* NaN == <<0, 0>> that numpy returns for the mean or median of an empty   *)
(* slice.  Floating-point rounding is not modelled.                        *)
(*                                                                         *)
(* Python values.  A value that is either None or a list is modelled as a  *)
(* record [tag, v]: PyNone or PyList(s).                                   *)
(*                                                                         *)
(* The second half of the module models the sample store of JsonParser.py  *)
(* (JsonParser: parse_file, parse_line, extract_topics, get_topic_values,  *)
(* clear_all), the reader thread of serialInterface.py that feeds it, and  *)
(* the filter registry of filters.py (Filter.getAvailableFilters).         *)
(*                                                                         *)
(* The last part models the MQTT dock and MqttInterface (SpecMqtt), the    *)
(* start and stop of serial connections with their reader threads          *)
(* (SpecPorts) and one refresh of the plot, AppModel.plotJson (SpecPlot).  *)
(***************************************************************************)
EXTENDS Integers, Sequences, FiniteSets, TLC

VARIABLES
    flt,      \* SpecFilter: the filter object under test (a record of its attributes)
    given,    \* SpecFilter: the inputData the caller handed to the constructor
    res,      \* SpecFilter: outcome of the last apply() on flt
    pc,       \* SpecFilter: "new" after construction, "applied" after apply()
    filters,  \* Spec: FiltersModel.filters, the list of DeletableFilterBox
    ydata,    \* Spec: the inputData of the last FiltersModel.apply call
    chainRes, \* Spec: outcome of the last FiltersModel.apply call
    last,     \* Spec: the last operation performed and whether it called AppModel.alert
    logs,     \* SpecStore, SpecSerial: JsonParser.logs, the records of the store
    filename, \* SpecStore: JsonParser.filename ("" stands for None)
    scall,    \* SpecStore: the last call on the store, its arguments and its outcome
    fg,       \* SpecSerial: the frame of the foreground's get_topic_values call
    fed,      \* SpecSerial: the lines readSerial has read from the port so far
    mqtt,     \* SpecMqtt: MqttDock and its MqttInterface, the broker's view of the client
    serial,   \* SpecPorts: SerialInterface, its reader threads and their stores
    canvas    \* SpecPlot: the plot settings and what plotJson handed to the renderer

filterVars == <<flt, given, res, pc>>
chainVars == <<filters, ydata, chainRes, last>>
storeVars == <<logs, filename, scall, fg, fed>>
ioVars == <<mqtt, serial, canvas>>
vars == <<flt, given, res, pc, filters, ydata, chainRes, last,
          logs, filename, scall, fg, fed, mqtt, serial, canvas>>

-----------------------------------------------------------------------------
(* Bounds of the model *)

\* largest sample value of an input vector (samples are 0..MaxVal)
MaxVal == 2
\* longest input vector handed to a single filter
MaxLen == 4
\* largest window width a filter is constructed with
MaxWidth == 3
\* widths down to -NegWidth are constructed too (width is not validated)
NegWidth == 1
\* most filter boxes in the chain at a time
MaxChain == 2
\* largest sample value and longest vector handed to the chain
MaxYVal == 1
MaxYLen == 2

(* Program constants *)
DEFAULT_WIDTH == 21
DEFAULT_ELIMINATION_RATIO == 1

-----------------------------------------------------------------------------
(* Exact rational arithmetic standing for float arithmetic *)

Abs(n) == IF n < 0 THEN -n ELSE n

RECURSIVE GCD(_, _)
GCD(a, b) == IF b = 0 THEN a ELSE GCD(b, a % b)

NaN == <<0, 0>>
IsNaN(x) == x[2] = 0

Norm(n, d) ==
    IF d = 0 THEN NaN
    ELSE LET g == GCD(Abs(n), Abs(d))
             s == IF d < 0 THEN -1 ELSE 1
         IN  <<(s * n) \div g, (s * d) \div g>>

Rat(n) == <<n, 1>>
Zero == Rat(0)
One == Rat(1)

RAdd(x, y) == IF IsNaN(x) \/ IsNaN(y) THEN NaN
              ELSE Norm(x[1] * y[2] + y[1] * x[2], x[2] * y[2])
RSub(x, y) == IF IsNaN(x) \/ IsNaN(y) THEN NaN
              ELSE Norm(x[1] * y[2] - y[1] * x[2], x[2] * y[2])
\* x / k for an integer k > 0
RDivInt(x, k) == IF IsNaN(x) THEN NaN ELSE Norm(x[1], x[2] * k)
\* x * k for an integer k
RMulInt(x, k) == IF IsNaN(x) THEN NaN ELSE Norm(x[1] * k, x[2])
\* float comparison x < y: False as soon as one side is NaN
RLess(x, y) == ~IsNaN(x) /\ ~IsNaN(y) /\ x[1] * y[2] < y[1] * x[2]
RLeq(x, y) == ~IsNaN(x) /\ ~IsNaN(y) /\ x[1] * y[2] <= y[1] * x[2]

\* Python int(x) of a finite float: truncation toward zero
PyInt(x) == IF x[1] >= 0 THEN x[1] \div x[2] ELSE -((-x[1]) \div x[2])

-----------------------------------------------------------------------------
(* Python values: None or a list *)

PyNone == [tag |-> "None", v |-> <<>>]
PyList(s) == [tag |-> "list", v |-> s]
\* truth value of `if x:` for None or a list
Truthy(x) == x.tag = "list" /\ x.v # <<>>

Range(s) == {s[i] : i \in DOMAIN s}
Min2(a, b) == IF a < b THEN a ELSE b
Max2(a, b) == IF a > b THEN a ELSE b

\* Python slice s[a:b] of a sequence (indices 0-based, negative ones count
\* from the end, both clamped to 0..len)
PyIndex(k, L) == IF k < 0 THEN Max2(k + L, 0) ELSE Min2(k, L)
PySlice(s, a, b) == SubSeq(s, PyIndex(a, Len(s)) + 1, PyIndex(b, Len(s)))

-----------------------------------------------------------------------------
(* numpy and builtin functions the filters call *)

RECURSIVE SumSeq(_)
SumSeq(s) == IF s = <<>> THEN Zero ELSE RAdd(s[1], SumSeq(Tail(s)))

\* np.mean: NaN for an empty slice
np_mean(s) == IF s = <<>> THEN NaN ELSE RDivInt(SumSeq(s), Len(s))

\* np.sort: a sorted copy, NaN last
RECURSIVE InsertSorted(_, _)
InsertSorted(x, s) ==
    IF s = <<>> THEN <<x>>
    ELSE IF IsNaN(s[1]) \/ RLeq(x, s[1]) THEN <<x>> \o s
    ELSE <<s[1]>> \o InsertSorted(x, Tail(s))

RECURSIVE np_sort(_)
np_sort(s) == IF s = <<>> THEN <<>> ELSE InsertSorted(s[1], np_sort(Tail(s)))

\* np.median: NaN for an empty slice or when a NaN is present; the middle
\* element of the sorted copy, or the mean of the two middle ones
np_median(s) ==
    IF s = <<>> \/ \E i \in DOMAIN s : IsNaN(s[i]) THEN NaN
    ELSE LET b == np_sort(s)
             n == Len(s)
         IN  IF n % 2 = 1 THEN b[(n + 1) \div 2]
             ELSE RDivInt(RAdd(b[n \div 2], b[n \div 2 + 1]), 2)

\* builtin min: keeps the first element unless a later one compares smaller
RECURSIVE MinFrom(_, _)
MinFrom(m, s) ==
    IF s = <<>> THEN m
    ELSE MinFrom(IF RLess(s[1], m) THEN s[1] ELSE m, Tail(s))

py_min(s) == MinFrom(s[1], Tail(s))

-----------------------------------------------------------------------------
(* filters.py: the filter classes.  A filter object is a record of its      *)
(* instance attributes; `kind` is its class.  _userParams, a dict from a    *)
(* parameter name to its type, is a set of <<name, type>> pairs.            *)

\* hasattr(self, param) for the instance attributes
HasAttr(self, param) == param \in DOMAIN self

\* Filter.userParams setter: keeps the params that name an existing attribute
SetUserParams(self, params) ==
    [self EXCEPT !._userParams =
        {q \in @ : \A p \in params : HasAttr(self, p[1]) => q[1] # p[1]}
        \cup {p \in params : HasAttr(self, p[1])}]

\* int(self.width * self.ratio / 2)
CutExtremaOf(width, ratio) == PyInt(RDivInt(RMulInt(ratio, width), 2))

\* MovingMedian.__init__(inputData, width, ratio)
MovingMedianInit(inputData, width, ratio) ==
    SetUserParams(
        [kind |-> "MovingMedian", _userParams |-> {}, input |-> inputData,
         width |-> width, ratio |-> ratio,
         cutExtrema |-> CutExtremaOf(width, ratio)],
        {<<"width", "int">>, <<"ratio", "float">>})

\* variant: MovingAverage leaving ratio at MovingMedian's default
MovingAverageInitDefaultRatio(inputData, width) ==
    [MovingMedianInit(inputData, width, Rat(DEFAULT_ELIMINATION_RATIO))
        EXCEPT !.kind = "MovingAverage"]

\* MovingAverage.__init__(inputData, width): super().__init__(inputData, width, ratio = 0)
MovingAverageInit(inputData, width) ==
    [MovingMedianInit(inputData, width, Zero) EXCEPT !.kind = "MovingAverage"]

\* MedianCentering / MeanCentering / MinCentering .__init__(inputData)
CenteringInit(kind, inputData) ==
    [kind |-> kind, _userParams |-> {}, input |-> inputData]

\* Outcome of a call: the exception raised ("" when none) and the value returned
Return(val) == [raised |-> "", ret |-> val]
Raise(exc) == [raised |-> exc, ret |-> PyNone]

\* variant: the comparison of the two lengths reversed
InputLongerThanWidth(self) == Len(self.input.v) > self.width

\* len(self.input) < self.width
InputShorterThanWidth(self) == Len(self.input.v) < self.width

\* variant: the window anchored at L - width computed too
WindowOffsetsInclusive(self) == Max2(Len(self.input.v) - self.width + 1, 0)

\* range(len(self.input) - self.width): the window offsets 0 .. L - width - 1
WindowOffsets(self) == Max2(Len(self.input.v) - self.width, 0)

\* self.input[i:i+self.width]
WindowAt(self, i) == PySlice(self.input.v, i, i + self.width)

\* variant: the slice taken without the cutExtrema > 0 test
TrimmedMeanNoGuard(self, i) ==
    np_mean(PySlice(np_sort(WindowAt(self, i)), self.cutExtrema, -self.cutExtrema))

\* the body of the loop of MovingMedian.apply for one window
TrimmedMean(self, i) ==
    LET currentBlock == np_sort(WindowAt(self, i))
    IN  IF self.cutExtrema > 0
        THEN np_mean(PySlice(currentBlock, self.cutExtrema, -self.cutExtrema))
        ELSE np_mean(currentBlock)

\* MovingMedian.apply (inherited by MovingAverage); len(None) raises TypeError
MovingMedianApply(self) ==
    IF self.input.tag = "None" THEN Raise("TypeError")
    ELSE IF InputShorterThanWidth(self) THEN Return(self.input)
    ELSE IF self.ratio = One
         THEN Return(PyList([k \in 1..WindowOffsets(self) |->
                                np_median(WindowAt(self, k - 1))]))
         ELSE Return(PyList([k \in 1..WindowOffsets(self) |->
                                TrimmedMean(self, k - 1)]))

\* variant: MinCentering centering on the mean
CenterOfMinIsMean(kind, input) ==
    CASE kind = "MedianCentering" -> np_median(input)
      [] kind = "MeanCentering" -> np_mean(input)
      [] kind = "MinCentering" -> np_mean(input)

\* the reference statistic of each centering filter
CenterOf(kind, input) ==
    CASE kind = "MedianCentering" -> np_median(input)
      [] kind = "MeanCentering" -> np_mean(input)
      [] kind = "MinCentering" -> py_min(input)

\* MedianCentering.apply / MeanCentering.apply / MinCentering.apply:
\* `if self.input:` and, otherwise, the implicit return of None
CenteringApply(self) ==
    IF Truthy(self.input)
    THEN Return(PyList([k \in DOMAIN self.input.v |->
                           RSub(self.input.v[k], CenterOf(self.kind, self.input.v))]))
    ELSE Return(PyNone)

MovingKinds == {"MovingMedian", "MovingAverage"}
CenteringKinds == {"MedianCentering", "MeanCentering", "MinCentering"}

\* f.apply(), dispatched on the class of f
FilterApply(self) ==
    IF self.kind \in MovingKinds THEN MovingMedianApply(self)
    ELSE CenteringApply(self)

-----------------------------------------------------------------------------
(* SpecFilter: one filter object, constructed with any arguments of the     *)
(* bounded sets, on which apply() is called.                                *)

Vals == {Rat(n) : n \in 0..MaxVal}
Lists(n) == UNION {[1..k -> Vals] : k \in 0..n}
\* the inputData a caller may pass: None (the default) or a list of floats
Inputs == {PyNone} \cup {PyList(s) : s \in Lists(MaxLen)}
Widths == ((0 - NegWidth)..MaxWidth) \cup {DEFAULT_WIDTH}
\* ratio is expected in [0, 1] and not validated: 2 stands for the values outside
Ratios == {Zero, <<1, 2>>, <<3, 4>>, One, Rat(2)}

\* every filter object a constructor call can return for inputData
Constructed(inputData) ==
    {MovingMedianInit(inputData, w, r) : w \in Widths, r \in Ratios}
    \cup {MovingAverageInit(inputData, w) : w \in Widths}
    \cup {CenteringInit(k, inputData) : k \in CenteringKinds}

NoResult == Return(PyNone)
Did(op, alert) == [op |-> op, alert |-> alert]

\* no file named, no call made on the store, no call running in the foreground
NoFile == [name |-> "", lines |-> <<>>]
NoCall ==
    [op |-> "none", text |-> "", numeral |-> FALSE, file |-> NoFile,
     before |-> <<>>, raised |-> "", ret |-> <<>>, diag |-> <<>>, opened |-> FALSE]
NoFrame ==
    [pc |-> "idle", topic |-> "", idx |-> 0, start |-> 0,
     acc |-> [raised |-> "", ret |-> <<>>, diag |-> <<>>]]

\* the topics messages are published on
MqttTopics == {"t1", "t2"}

\* the MQTT dock after connect(): a client, no scan, nothing received
NoMessage == [topic |-> "", payload |-> "", delivered |-> FALSE]
MqttConnected ==
    [isScanOn |-> FALSE, subs |-> {}, topics |-> <<>>, subscribedTopics |-> <<>>,
     data |-> [t \in MqttTopics |-> PyNone], items |-> <<>>, index |-> 0,
     currentTopic |-> "", pc |-> "idle", op |-> "connect", msg |-> NoMessage,
     sent |-> 0]

\* SerialInterface(): no port connected, no store, no thread
SerialInterfaceInit ==
    [connectedPorts |-> 0, jsonLogs |-> 0, stores |-> <<>>, threads |-> <<>>,
     main |-> "idle", op |-> "init", by |-> 0, nread |-> 0]

\* the canvas before any refresh: nothing handed to the renderer
NoPlot ==
    [plotMode |-> "Normal", xTopic |-> "", yTopic |-> "", raised |-> "",
     drawn |-> FALSE, xdata |-> <<>>, ydata |-> <<>>]

\* the MQTT dock, the serial interface and the canvas left untouched
IoIdle ==
    /\ mqtt = MqttConnected
    /\ serial = SerialInterfaceInit
    /\ canvas = NoPlot

\* the store as the specifications of the filter engine leave it: untouched
StoreIdle ==
    /\ logs = <<>>
    /\ filename = ""
    /\ scall = NoCall
    /\ fg = NoFrame
    /\ fed = <<>>

ChainInit ==
    /\ filters = <<>>
    /\ ydata = PyNone
    /\ chainRes = NoResult
    /\ last = Did("init", FALSE)

InitFilter ==
    /\ given \in Inputs
    /\ flt \in Constructed(given)
    /\ res = NoResult
    /\ pc = "new"
    /\ ChainInit
    /\ StoreIdle
    /\ IoIdle

\* flt.apply()
Apply ==
    /\ pc = "new"
    /\ res' = FilterApply(flt)
    /\ pc' = "applied"
    /\ UNCHANGED <<flt, given>>
    /\ UNCHANGED chainVars
    /\ UNCHANGED storeVars
    /\ UNCHANGED ioVars

NextFilter == Apply

SpecFilter == InitFilter /\ [][NextFilter]_vars

-----------------------------------------------------------------------------
(* Statistics as the claims state them, defined without the code's sort     *)

\* the k-th smallest element of win (1 <= k <= Len(win))
OrderStat(win, k) ==
    CHOOSE x \in Range(win) :
        /\ Cardinality({j \in DOMAIN win : RLess(win[j], x)}) < k
        /\ k <= Cardinality({j \in DOMAIN win : RLeq(win[j], x)})

RECURSIVE SumStats(_, _, _)
\* the sum of the lo-th to the hi-th smallest elements of win
SumStats(win, lo, hi) ==
    IF lo > hi THEN Zero
    ELSE RAdd(OrderStat(win, lo), SumStats(win, lo + 1, hi))

\* the median: the middle order statistic, or the mean of the two middle ones
MedianSpec(win) ==
    LET n == Len(win)
    IN  IF n = 0 THEN NaN
        ELSE IF n % 2 = 1 THEN OrderStat(win, (n + 1) \div 2)
        ELSE RDivInt(RAdd(OrderStat(win, n \div 2), OrderStat(win, n \div 2 + 1)), 2)

\* the mean of win with c elements removed from each end of its sorted order
\* (NaN, numpy's mean of nothing, when no element is left)
TrimmedMeanSpec(win, c) ==
    LET n == Len(win)
    IN  IF n - 2 * c <= 0 THEN NaN
        ELSE RDivInt(SumStats(win, c + 1, n - c), n - 2 * c)

MeanSpec(win) == TrimmedMeanSpec(win, 0)

MinSpec(win) == CHOOSE x \in Range(win) : \A y \in Range(win) : RLeq(x, y)

\* the window input[i : i+w] of the claims, in Python's slice notation: the
\* elements at 0-based positions i .. i+w-1, a negative stop i+w counting
\* from the end
ClaimWindow(inp, i, w) ==
    IF i + w < 0 THEN SubSeq(inp, i + 1, Len(inp) + i + w)
    ELSE SubSeq(inp, i + 1, Min2(i + w, Len(inp)))

Applied == pc = "applied"
OnList == flt.input.tag = "list"
OutIsList == res.raised = "" /\ res.ret.tag = "list"

-----------------------------------------------------------------------------
(* C2 *)
C2_Pre ==
    /\ Applied /\ flt.kind = "MovingMedian" /\ OnList
    /\ Len(flt.input.v) >= flt.width /\ flt.ratio = One

\* C2: on an input of length L >= width, MovingMedian.apply() with ratio = 1
\* returns exactly L - width values, value i being the median of the window
\* input[i : i+width]; no value is computed for the window anchored at L - width.
C2_MedianOfEachWindow ==
    C2_Pre =>
        LET inp == flt.input.v
            n == Len(inp) - flt.width
        IN  /\ OutIsList
            /\ Len(res.ret.v) = n
            /\ \A i \in 0..(n - 1) :
                  res.ret.v[i + 1] = MedianSpec(ClaimWindow(inp, i, flt.width))

C2_Witness ==
    /\ C2_Pre /\ flt.width = 3 /\ Len(flt.input.v) = 4
    /\ OutIsList /\ res.ret.v = <<Rat(1)>>

(* C3 *)
C3_Pre ==
    /\ Applied /\ flt.kind \in MovingKinds /\ OnList
    /\ Len(flt.input.v) < flt.width

\* C3: on an input shorter than width, MovingMedian.apply() returns the input
\* unchanged (same values, order and length), whatever the ratio.
C3_ShortInputReturnedUnchanged ==
    C3_Pre => res = Return(given) /\ flt.input = given

C3_Witness ==
    /\ C3_Pre /\ flt.width = 3 /\ Len(flt.input.v) = 2 /\ flt.ratio = <<1, 2>>
    /\ res.ret.v = <<Rat(2), Rat(1)>>

(* C4 *)
C4_Pre ==
    /\ Applied /\ flt.kind \in MovingKinds /\ OnList
    /\ Len(flt.input.v) >= flt.width /\ flt.ratio # One

\* C4: on an input of length L >= width and with a ratio other than 1,
\* MovingMedian.apply() returns exactly L - width values, value i being the
\* mean of the sorted window input[i : i+width] with cutExtrema elements
\* removed from each end when cutExtrema > 0, and the mean of the whole window
\* when cutExtrema = 0.
C4_TrimmedMeanOfEachWindow ==
    C4_Pre =>
        LET inp == flt.input.v
            n == Len(inp) - flt.width
            c == flt.cutExtrema
        IN  /\ OutIsList
            /\ Len(res.ret.v) = n
            /\ \A i \in 0..(n - 1) :
                  LET win == ClaimWindow(inp, i, flt.width)
                  IN  /\ c > 0 => res.ret.v[i + 1] = TrimmedMeanSpec(win, c)
                      /\ c = 0 => res.ret.v[i + 1] = MeanSpec(win)

C4_Witness ==
    /\ C4_Pre /\ flt.width = 3 /\ flt.cutExtrema = 1
    /\ flt.input.v = <<Rat(2), Rat(0), Rat(1), Rat(2)>>
    /\ res.ret.v = <<Rat(1)>>

(* C5 *)
C5_Pre == Applied /\ flt.kind = "MovingAverage"

\* C5: MovingAverage(width) returns what MovingMedian(width, ratio = 0) returns
\* on the same input, for every input and width, and on an input of length
\* >= width each value is the mean of the full window.
C5_MovingAverageIsMovingMedianRatioZero ==
    C5_Pre =>
        /\ res = FilterApply(MovingMedianInit(given, flt.width, Zero))
        /\ (OnList /\ Len(flt.input.v) >= flt.width) =>
              /\ OutIsList
              /\ Len(res.ret.v) = Len(flt.input.v) - flt.width
              /\ \A i \in 0..(Len(flt.input.v) - flt.width - 1) :
                    res.ret.v[i + 1] =
                        MeanSpec(ClaimWindow(flt.input.v, i, flt.width))

C5_Witness ==
    /\ C5_Pre /\ flt.width = 3
    /\ flt.input.v = <<Rat(0), Rat(0), Rat(1), Rat(2)>>
    /\ res.ret.v = << <<1, 3>> >>

(* C8 *)
C8_Pre == Applied /\ flt.kind \in CenteringKinds /\ Truthy(given)

StatSpec(kind, inp) ==
    CASE kind = "MedianCentering" -> MedianSpec(inp)
      [] kind = "MeanCentering" -> MeanSpec(inp)
      [] kind = "MinCentering" -> MinSpec(inp)

RatSeq(s) == [i \in DOMAIN s |-> Rat(s[i])]

\* C8: on a non-empty input each centering filter returns a sequence of the
\* input's length whose element i is input[i] minus one statistic of the whole
\* input (median, mean or minimum), and leaves the input as it was;
\* MinCentering on [5,3,9,3] gives [2,0,6,0].
C8_CenteringSubtractsOneStatistic ==
    /\ C8_Pre =>
          /\ OutIsList
          /\ Len(res.ret.v) = Len(given.v)
          /\ \A i \in DOMAIN given.v :
                res.ret.v[i] = RSub(given.v[i], StatSpec(flt.kind, given.v))
          /\ flt.input = given
    /\ FilterApply(CenteringInit("MinCentering", PyList(RatSeq(<<5, 3, 9, 3>>))))
          = Return(PyList(RatSeq(<<2, 0, 6, 0>>)))

C8_Witness ==
    /\ C8_Pre /\ flt.kind = "MedianCentering"
    /\ given.v = <<Rat(2), Rat(0), Rat(1), Rat(1)>>
    /\ res.ret.v = <<Rat(1), Rat(-1), Zero, Zero>>

(* C10 *)
\* C10: apply() on a freshly created filter of any kind, whose input has not
\* been assigned (None), returns an empty or absent result and does not raise.
C10_FreshFilterApplyDoesNotRaise ==
    (Applied /\ given = PyNone) => (res.raised = "" /\ ~Truthy(res.ret))

-----------------------------------------------------------------------------
(* plotter.py: the filter chain (FiltersModel), its boxes                   *)
(* (DeletableFilterBox) and their parameter popup (ParametersPopup).        *)
(* A box is a record [id, filter, entries]: its identity, the filter        *)
(* instance it holds and the popup's entries, a set of <<param, type>>      *)
(* pairs, the type being the one bound to the entry's editingFinished.      *)

\* cls.__subclasses__(): the direct subclasses, in the order filters.py
\* defines them
Subclasses(cls) ==
    CASE cls = "Filter" ->
            <<"MovingMedian", "MedianCentering", "MeanCentering", "MinCentering">>
      [] cls = "MovingMedian" -> <<"MovingAverage">>
      [] OTHER -> <<>>

\* an enumeration of the direct subclasses only
DirectSubclassesOnly(cls) == Subclasses(cls)

RECURSIVE YieldFrom(_, _)
RECURSIVE GetAvailableFilters(_)
\* the loop of getAvailableFilters over subs: for each subclass, what it
\* yields itself and then the subclass
YieldFrom(subs, k) ==
    IF k > Len(subs) THEN <<>>
    ELSE GetAvailableFilters(subs[k]) \o <<subs[k]>> \o YieldFrom(subs, k + 1)

\* cls.getAvailableFilters()
GetAvailableFilters(cls) == YieldFrom(Subclasses(cls), 1)

\* Filter.getAvailableFilters(): the subclasses of a class before the class
AvailableFilters == GetAvailableFilters("Filter")

\* f(): the class called with its default arguments
NewFilter(kind) ==
    CASE kind = "MovingMedian" ->
            MovingMedianInit(PyNone, DEFAULT_WIDTH, Rat(DEFAULT_ELIMINATION_RATIO))
      [] kind = "MovingAverage" -> MovingAverageInit(PyNone, DEFAULT_WIDTH)
      [] OTHER -> CenteringInit(kind, PyNone)

\* ParametersPopup.updateParams: drops the entries of params the filter does
\* not declare, adds an entry for each declared param that has none
UpdateParams(entries, filterRef) ==
    LET declared == {p[1] : p \in filterRef._userParams}
        kept == {e \in entries : e[1] \in declared}
    IN  kept \cup {p \in filterRef._userParams : \A e \in kept : e[1] # p[1]}

\* DeletableFilterBox.setFilter: a fresh instance of the selected class,
\* handed to the popup
SetFilterOf(box, selectedFilter) ==
    IF \E i \in DOMAIN AvailableFilters : AvailableFilters[i] = selectedFilter
    THEN [box EXCEPT !.filter = NewFilter(selectedFilter),
                     !.entries = UpdateParams(box.entries, NewFilter(selectedFilter))]
    ELSE box

\* DeletableFilterBox.__init__: adding the first item to the empty combo box
\* selects it, which runs setFilter
NewBox(id) ==
    SetFilterOf([id |-> id, filter |-> NewFilter(AvailableFilters[1]), entries |-> {}],
                AvailableFilters[1])

\* what the user may have typed in an entry when editing finishes
Texts == {"", "abc", "1", "0.5"}

\* outputType(valStr) for int and float: the value, or a ValueError
ParseAs(outputType, valStr) ==
    CASE outputType = "int" /\ valStr = "1" -> [ok |-> TRUE, val |-> 1]
      [] outputType = "float" /\ valStr = "1" -> [ok |-> TRUE, val |-> Rat(1)]
      [] outputType = "float" /\ valStr = "0.5" -> [ok |-> TRUE, val |-> <<1, 2>>]
      [] OTHER -> [ok |-> FALSE, val |-> 0]

\* setattr(self.filterRef, param, val): the attribute is assigned, and
\* created when the object has none of that name
SetAttr(self, param, val) ==
    IF param \in DOMAIN self THEN [self EXCEPT ![param] = val]
    ELSE self @@ (param :> val)

\* a setParam without the test that the popup has an entry for param
SetParamNoEntryTest(box, param, outputType, valStr) ==
    IF valStr # "" /\ ParseAs(outputType, valStr).ok
    THEN [box |-> [box EXCEPT !.filter =
                      SetAttr(@, param, ParseAs(outputType, valStr).val)],
          alert |-> FALSE]
    ELSE [box |-> box, alert |-> valStr # ""]

\* ParametersPopup.setParam(param, outputType) with valStr in the entry:
\* the box afterwards, and whether AppModel.alert was called
SetParamOf(box, param, outputType, valStr) ==
    IF (\E e \in box.entries : e[1] = param) /\ valStr # ""
    THEN IF ParseAs(outputType, valStr).ok
         THEN [box |-> [box EXCEPT !.filter =
                           SetAttr(@, param, ParseAs(outputType, valStr).val)],
               alert |-> FALSE]
         ELSE [box |-> box, alert |-> TRUE]
    ELSE [box |-> box, alert |-> FALSE]

\* variant: the return placed inside the loop, after the first filter
ChainRunReturnInLoop(boxes, k, outputData) ==
    IF k > Len(boxes) THEN [boxes |-> boxes, out |-> Return(outputData)]
    ELSE LET f == [boxes[k].filter EXCEPT !.input = outputData]
         IN  [boxes |-> [boxes EXCEPT ![k].filter = f], out |-> FilterApply(f)]

RECURSIVE ChainRun(_, _, _)
\* the loop of FiltersModel.apply from box k on, outputData being the value
\* handed to it: the boxes afterwards and the outcome of the call
ChainRun(boxes, k, outputData) ==
    IF k > Len(boxes) THEN [boxes |-> boxes, out |-> Return(outputData)]
    ELSE LET f == [boxes[k].filter EXCEPT !.input = outputData]
             after == [boxes EXCEPT ![k].filter = f]
         IN  IF FilterApply(f).raised # ""
             THEN [boxes |-> after, out |-> FilterApply(f)]
             ELSE ChainRun(after, k + 1, FilterApply(f).ret)

\* FiltersModel.apply(inputData)
ChainApply(boxes, inputData) == ChainRun(boxes, 1, inputData)

\* a removal that drops the last box, whichever box was named
RemoveLastBox(boxes, id) == SubSeq(boxes, 1, Len(boxes) - 1)

\* list.remove(f) of FiltersModel.deleteFilter: drops the first box that is f
RemoveBox(boxes, id) ==
    LET at == CHOOSE i \in DOMAIN boxes :
                  boxes[i].id = id /\ \A j \in 1..(i - 1) : boxes[j].id # id
    IN  SubSeq(boxes, 1, at - 1) \o SubSeq(boxes, at + 1, Len(boxes))

\* the identity of a new box: distinct from the identity of every live box
FreshId(boxes) ==
    CHOOSE n \in 1..(Len(boxes) + 1) : \A i \in DOMAIN boxes : boxes[i].id # n

YVals == {Rat(n) : n \in 0..MaxYVal}
\* the vectors get_topic_values(topic, True) hands to the chain: lists of floats
YData == {PyList(s) : s \in UNION {[1..k -> YVals] : k \in 0..MaxYLen}}

Forget == ydata' = PyNone /\ chainRes' = NoResult

\* FiltersModel.onAddFilter
OnAddFilter ==
    /\ Len(filters) < MaxChain
    /\ filters' = Append(filters, NewBox(FreshId(filters)))
    /\ last' = Did("onAddFilter", FALSE)
    /\ Forget
    /\ UNCHANGED filterVars
    /\ UNCHANGED storeVars
    /\ UNCHANGED ioVars

\* DeletableFilterBox.setFilter, on currentIndexChanged of the k-th box
SetFilter ==
    \E k \in DOMAIN filters, i \in DOMAIN AvailableFilters :
        /\ AvailableFilters[i] # filters[k].filter.kind
        /\ filters' = [filters EXCEPT ![k] = SetFilterOf(@, AvailableFilters[i])]
        /\ last' = Did("setFilter", FALSE)
        /\ Forget
        /\ UNCHANGED filterVars
        /\ UNCHANGED storeVars
        /\ UNCHANGED ioVars

\* ParametersPopup.setParam, on editingFinished of an entry of the k-th box
SetParam ==
    \E k \in DOMAIN filters, valStr \in Texts :
        \E e \in filters[k].entries :
            LET r == SetParamOf(filters[k], e[1], e[2], valStr)
            IN  /\ filters' = [filters EXCEPT ![k] = r.box]
                /\ last' = Did("setParam", r.alert)
                /\ Forget
                /\ UNCHANGED filterVars
                /\ UNCHANGED storeVars
                /\ UNCHANGED ioVars

\* DeletableFilterBox.delete, on the delete button of the k-th box
Delete ==
    \E k \in DOMAIN filters :
        /\ filters' = RemoveBox(filters, filters[k].id)
        /\ last' = Did("delete", FALSE)
        /\ Forget
        /\ UNCHANGED filterVars
        /\ UNCHANGED storeVars
        /\ UNCHANGED ioVars

\* FiltersModel.apply(inputData), as plotJson calls it on a refresh
ApplyChain ==
    \E inputData \in YData :
        /\ filters' = ChainApply(filters, inputData).boxes
        /\ chainRes' = ChainApply(filters, inputData).out
        /\ ydata' = inputData
        /\ last' = Did("apply", FALSE)
        /\ UNCHANGED filterVars
        /\ UNCHANGED storeVars
        /\ UNCHANGED ioVars

Init ==
    /\ ChainInit
    /\ given = PyNone
    /\ flt = NewFilter("MovingMedian")
    /\ res = NoResult
    /\ pc = "idle"
    /\ StoreIdle
    /\ IoIdle

Next == OnAddFilter \/ SetFilter \/ SetParam \/ Delete \/ ApplyChain

Spec == Init /\ [][Next]_vars

-----------------------------------------------------------------------------
(* SpecChain: FiltersModel.apply called once on a chain the operations      *)
(* above can build, with any input vector of the bounded set.               *)

\* one more edit of a box: another class selected, or a parameter typed
EditStep(S) ==
    S \cup {SetFilterOf(b, AvailableFilters[i]) : b \in S, i \in DOMAIN AvailableFilters}
      \cup UNION {{SetParamOf(b, e[1], e[2], valStr).box :
                      e \in b.entries, valStr \in Texts} : b \in S}

RECURSIVE EditClosure(_)
EditClosure(S) == IF EditStep(S) = S THEN S ELSE EditClosure(EditStep(S))

\* the value an earlier apply may have left in a filter's input
LeftInput == {PyNone, PyList(<<One>>)}

\* the boxes with identity id that setFilter and setParam can produce
EditedBoxes(id) ==
    {[b EXCEPT !.filter.input = x] : b \in EditClosure({NewBox(id)}), x \in LeftInput}

RECURSIVE Chains(_)
\* the chains of n boxes, identities in creation order
Chains(n) ==
    IF n = 0 THEN {<<>>}
    ELSE {Append(c, b) : c \in Chains(n - 1), b \in EditedBoxes(n)}

InitChain ==
    /\ filters \in UNION {Chains(n) : n \in 0..MaxChain}
    /\ ydata = PyNone
    /\ chainRes = NoResult
    /\ last = Did("init", FALSE)
    /\ given = PyNone
    /\ flt = NewFilter("MovingMedian")
    /\ res = NoResult
    /\ pc = "idle"
    /\ StoreIdle
    /\ IoIdle

ApplyOnce == last.op = "init" /\ ApplyChain

NextChain == ApplyOnce

SpecChain == InitChain /\ [][NextChain]_vars

-----------------------------------------------------------------------------
(* The state right after FiltersModel.apply *)

AfterApply == last.op = "apply"
\* what the k-th filter returns on the input it holds
StageOut(k) == FilterApply(filters[k].filter)
\* the loop of the last apply reached the k-th filter
Ran(k) == \A j \in 1..(k - 1) : StageOut(j).raised = ""

(* C1 *)
\* C1: FilterChain.apply(inputVector) is the left-to-right composition of its
\* filters: stage 1 receives inputVector, stage k+1 receives the output of
\* stage k, the output of the last stage is returned, and an empty chain
\* returns inputVector itself; an exception raised by a stage ends the call.
C1_ChainIsLeftToRightComposition ==
    AfterApply =>
        LET n == Len(filters)
        IN  /\ n = 0 => chainRes = Return(ydata)
            /\ \A k \in 1..n :
                  Ran(k) =>
                      /\ filters[k].filter.input =
                            (IF k = 1 THEN ydata ELSE StageOut(k - 1).ret)
                      /\ (k = n \/ StageOut(k).raised # "") => chainRes = StageOut(k)

C1_Witness ==
    /\ AfterApply /\ Len(filters) = 2
    /\ filters[1].filter.kind = "MinCentering"
    /\ filters[2].filter.kind = "MovingAverage" /\ filters[2].filter.width = 1
    /\ ydata = PyList(<<Rat(1), Rat(0)>>)
    /\ chainRes = Return(PyList(<<Rat(1)>>))

(* C6 *)
\* floor(width * ratio / 2)
FloorHalfProduct(width, ratio) == (width * ratio[1]) \div (2 * ratio[2])

\* C6: at every call of MovingMedian.apply(), cutExtrema is
\* floor(width * ratio / 2) for the filter's current width and ratio, also
\* after width or ratio have been edited through setParam.
C6_CutExtremaFollowsWidthAndRatio ==
    AfterApply =>
        \A k \in DOMAIN filters :
            (Ran(k) /\ filters[k].filter.kind \in MovingKinds) =>
                filters[k].filter.cutExtrema =
                    FloorHalfProduct(filters[k].filter.width, filters[k].filter.ratio)

(* C7 *)
\* C7: a MovingAverage filter keeps ratio = 0 whatever parameters are edited
\* through its declared user parameters, and its output stays the full-window
\* means of MovingMedian(width, ratio = 0).
C7_MovingAverageRatioStaysZero ==
    \A k \in DOMAIN filters :
        filters[k].filter.kind = "MovingAverage" =>
            /\ filters[k].filter.ratio = Zero
            /\ (AfterApply /\ Ran(k)) =>
                  StageOut(k) = FilterApply(MovingMedianInit(
                      filters[k].filter.input, filters[k].filter.width, Zero))

(* C9 *)
\* C9: when a stage of the chain returns an empty or absent result,
\* FilterChain.apply does not raise (every filter kind accepts that input)
\* and returns an empty or absent value.
C9_EmptyStageResultPropagates ==
    (AfterApply /\ \E k \in DOMAIN filters :
                      Ran(k) /\ StageOut(k).raised = "" /\ ~Truthy(StageOut(k).ret))
        => (chainRes.raised = "" /\ ~Truthy(chainRes.ret))

-----------------------------------------------------------------------------
(* JsonParser.py: the sample store                                          *)
(*                                                                          *)
(* A JSON value inside a record is a record [t, s, n]: its type, its text   *)
(* when it is a string and its number when it is a number or a boolean.     *)
(* What json.loads returns for a line is a record [t, items, sc]: a dict    *)
(* with its <<key, value>> pairs in the order of the text, a list with its  *)
(* elements (as <<"", value>> pairs), or a scalar.                          *)

\* most records a store holds
MaxLogs == 3
\* most lines readSerial reads from the port
MaxFed == 3
\* most lines the file holds when parse_file is called again on a store
MaxRefill == 1

JNum(k) == [t |-> "num", s |-> "", n |-> Rat(k)]
JStr(str) == [t |-> "str", s |-> str, n |-> Zero]
JNull == [t |-> "null", s |-> "", n |-> Zero]
JBool(b) == [t |-> "bool", s |-> "", n |-> IF b THEN One ELSE Zero]

JDict(pairs) == [t |-> "dict", items |-> pairs, sc |-> JNull]
JList(elems) == [t |-> "list", items |-> [i \in DOMAIN elems |-> <<"", elems[i]>>],
                 sc |-> JNull]
JScalar(v) == [t |-> "scalar", items |-> <<>>, sc |-> v]

\* the texts a line of a file or of a serial port may be
Lines ==
    {"{\"a\":1}", "{\"a\":2}", "{\"a\": 1, \"b\": \"x\"}",
     "{\"b\": \"1.5\", \"a\": null, \"c\": true}",
     "not json", "{\"a\":1", " {\"a\":1}", "5", "[\"a\"]"}

\* a line of a file whose bytes are no text in the encoding open() assumes
Undecodable == "<0xff>"
\* the lines a file may hold
FileLines == Lines \cup {Undecodable}

\* line.startswith("{")
StartsWithBrace(line) ==
    line \in {"{\"a\":1}", "{\"a\":2}", "{\"a\": 1, \"b\": \"x\"}",
              "{\"b\": \"1.5\", \"a\": null, \"c\": true}", "{\"a\":1"}

Loaded(val) == [ok |-> TRUE, val |-> val]
JSONDecodeError == [ok |-> FALSE, val |-> JScalar(JNull)]

\* json.loads(line): the document the text denotes, whitespace around it
\* skipped, or a JSONDecodeError
json_loads(line) ==
    CASE line = "{\"a\":1}" -> Loaded(JDict(<< <<"a", JNum(1)>> >>))
      [] line = "{\"a\":2}" -> Loaded(JDict(<< <<"a", JNum(2)>> >>))
      [] line = "{\"a\": 1, \"b\": \"x\"}" ->
            Loaded(JDict(<< <<"a", JNum(1)>>, <<"b", JStr("x")>> >>))
      [] line = "{\"b\": \"1.5\", \"a\": null, \"c\": true}" ->
            Loaded(JDict(<< <<"b", JStr("1.5")>>, <<"a", JNull>>, <<"c", JBool(TRUE)>> >>))
      [] line = " {\"a\":1}" -> Loaded(JDict(<< <<"a", JNum(1)>> >>))
      [] line = "5" -> Loaded(JScalar(JNum(5)))
      [] line = "[\"a\"]" -> Loaded(JList(<<JStr("a")>>))
      [] OTHER -> JSONDecodeError

\* the outcome of a call on the store: the exception that left it if any,
\* what it returned, what it printed, whether it called open()
Outcome(raised, ret, diag, opened) ==
    [raised |-> raised, ret |-> ret, diag |-> diag, opened |-> opened]

\* a parse_line without the test of the first character
ParseLineNoPrefilter(self_logs, line) ==
    IF json_loads(line).ok THEN Append(self_logs, json_loads(line).val) ELSE self_logs

\* parse_line: the line is parsed only if it starts with "{", and appended
\* only if it parses
parse_line(self_logs, line) ==
    IF StartsWithBrace(line) /\ json_loads(line).ok
    THEN Append(self_logs, json_loads(line).val)
    ELSE self_logs

RECURSIVE ParseLinesFrom(_, _, _, _)
\* the loop of parse_file from line idx on (idx counts from 0): each line
\* that json.loads accepts is appended, each other line prints its index
ParseLinesFrom(self_logs, lines, idx, diag) ==
    IF idx >= Len(lines) THEN [logs |-> self_logs, diag |-> diag]
    ELSE IF json_loads(lines[idx + 1]).ok
         THEN ParseLinesFrom(Append(self_logs, json_loads(lines[idx + 1]).val),
                             lines, idx + 1, diag)
         ELSE ParseLinesFrom(self_logs, lines, idx + 1, Append(diag, idx))

\* the names a file may be asked for
Filenames == {"run.json", "gone.json", "run.txt"}
\* filename.endswith('.json')
EndsWithJson(name) == name \in {"run.json", "gone.json"}
\* whether open(filename) succeeds: None and a missing file do not open
Openable(name) == name \in {"run.json", "run.txt"}

\* enumerate(f) decodes the file buffer by buffer: the numbers of lines it
\* may yield, all of them when every line decodes, and otherwise any number
\* of the lines before the first that does not
Yielded(lines) ==
    IF \A i \in DOMAIN lines : lines[i] # Undecodable THEN {Len(lines)}
    ELSE 0..((CHOOSE i \in DOMAIN lines :
                 lines[i] = Undecodable /\ \A j \in 1..(i - 1) : lines[j] # Undecodable) - 1)

\* parse_file: [logs, out], the records after the call and its outcome;
\* the loop runs on the k lines the file yields, and the decoding error of
\* the next buffer, raised by the for statement, leaves the method
parse_file(self_logs, name, lines, k) ==
    IF ~Openable(name)
    THEN [logs |-> self_logs, out |-> Outcome("FileNotFoundError", <<>>, <<>>, TRUE)]
    ELSE LET r == ParseLinesFrom(self_logs, SubSeq(lines, 1, k), 0, <<>>)
         IN  [logs |-> r.logs,
              out |-> Outcome(IF k = Len(lines) THEN "" ELSE "UnicodeDecodeError",
                              <<>>, r.diag, TRUE)]

\* JsonParser.__init__(filename): no records; a filename is checked for its
\* extension and then parsed
JsonParserInit(name, lines, k) ==
    IF name = "" THEN [logs |-> <<>>, out |-> Outcome("", <<>>, <<>>, FALSE)]
    ELSE IF ~EndsWithJson(name)
         THEN [logs |-> <<>>, out |-> Outcome("IOError", <<>>, <<>>, FALSE)]
         ELSE parse_file(<<>>, name, lines, k)

\* for topic in log: the keys of a dict, the elements of a list (the lists
\* of Lines hold strings), a TypeError for a number
IterKeys(log) ==
    CASE log.t = "dict" -> [raised |-> "", keys |-> [i \in DOMAIN log.items |-> log.items[i][1]]]
      [] log.t = "list" -> [raised |-> "", keys |-> [i \in DOMAIN log.items |-> log.items[i][2].s]]
      [] OTHER -> [raised |-> "TypeError", keys |-> <<>>]

\* topic in log: a key of a dict, an element of a list, a TypeError for a number
Contains(topic, log) ==
    CASE log.t = "dict" ->
            [raised |-> "", val |-> \E i \in DOMAIN log.items : log.items[i][1] = topic]
      [] log.t = "list" ->
            [raised |-> "", val |-> \E i \in DOMAIN log.items : log.items[i][2] = JStr(topic)]
      [] OTHER -> [raised |-> "TypeError", val |-> FALSE]

\* log[topic], topic being in log: the value of the key; a list takes no
\* string index
GetItem(log, topic) ==
    IF log.t = "dict"
    THEN [raised |-> "",
          val |-> log.items[CHOOSE i \in DOMAIN log.items : log.items[i][1] = topic][2]]
    ELSE [raised |-> "TypeError", val |-> JNull]

\* float(value): a number is itself, True is 1.0, a string is parsed, None
\* is a TypeError
PyFloat(value) ==
    CASE value.t = "num" -> [raised |-> "", val |-> value.n]
      [] value.t = "bool" -> [raised |-> "", val |-> value.n]
      [] value.t = "str" ->
            IF value.s = "1.5" THEN [raised |-> "", val |-> <<3, 2>>]
            ELSE [raised |-> "ValueError", val |-> NaN]
      [] OTHER -> [raised |-> "TypeError", val |-> NaN]

RECURSIVE AppendNew(_, _)
\* the inner loop of extract_topics: each key not yet listed is appended
AppendNew(topics, keys) ==
    IF keys = <<>> THEN topics
    ELSE AppendNew(IF \E i \in DOMAIN topics : topics[i] = Head(keys)
                   THEN topics ELSE Append(topics, Head(keys)),
                   Tail(keys))

RECURSIVE TopicsFrom(_, _, _)
\* the outer loop of extract_topics from record idx + 1 on
TopicsFrom(self_logs, idx, topics) ==
    IF idx >= Len(self_logs) THEN Outcome("", topics, <<>>, FALSE)
    ELSE IF IterKeys(self_logs[idx + 1]).raised # ""
         THEN Outcome(IterKeys(self_logs[idx + 1]).raised, <<>>, <<>>, FALSE)
         ELSE TopicsFrom(self_logs, idx + 1,
                         AppendNew(topics, IterKeys(self_logs[idx + 1]).keys))

extract_topics(self_logs) == TopicsFrom(self_logs, 0, <<>>)

\* one iteration of the loop of get_topic_values on the record log; acc is
\* [raised, ret, diag]: the exception that ended the loop if any, the list
\* values and the values printed as not castable.  values.append stands
\* inside "if numeral:", after the cast.
ValuesStep(acc, log, topic, numeral) ==
    IF acc.raised # "" THEN acc
    ELSE IF Contains(topic, log).raised # ""
         THEN [acc EXCEPT !.raised = Contains(topic, log).raised, !.ret = <<>>]
    ELSE IF ~Contains(topic, log).val THEN acc
    ELSE IF GetItem(log, topic).raised # ""
         THEN [acc EXCEPT !.raised = GetItem(log, topic).raised, !.ret = <<>>]
    ELSE IF ~numeral THEN acc
    ELSE IF PyFloat(GetItem(log, topic).val).raised = ""
         THEN [acc EXCEPT !.ret = Append(@, PyFloat(GetItem(log, topic).val).val)]
         ELSE [acc EXCEPT !.diag = Append(@, GetItem(log, topic).val)]

ValuesOutcome(acc) == Outcome(acc.raised, acc.ret, acc.diag, FALSE)

NoValues == [raised |-> "", ret |-> <<>>, diag |-> <<>>]

RECURSIVE ValuesFrom(_, _, _, _, _)
ValuesFrom(self_logs, idx, acc, topic, numeral) ==
    IF idx >= Len(self_logs) THEN acc
    ELSE ValuesFrom(self_logs, idx + 1,
                    ValuesStep(acc, self_logs[idx + 1], topic, numeral), topic, numeral)

get_topic_values(self_logs, topic, numeral) ==
    ValuesFrom(self_logs, 0, NoValues, topic, numeral)

\* a clear that keeps the oldest record
ClearAllKeepsOldest(self_logs) == SubSeq(self_logs, 1, Min2(1, Len(self_logs)))

\* clear_all: self.logs.clear()
clear_all(self_logs) == <<>>

-----------------------------------------------------------------------------
(* SpecStore: one store, constructed with or without a file, and then any   *)
(* calls of its methods.  scall keeps the last call: its name, its          *)
(* arguments, the records before it and its outcome.                        *)

\* the topics asked for
Topics == {"a", "b", "c"}

RECURSIVE FileTexts(_)
\* the contents of a file of at most n lines
FileTexts(n) == IF n = 0 THEN {<<>>}
             ELSE FileTexts(n - 1) \cup
                  {Append(c, line) : c \in {d \in FileTexts(n - 1) : Len(d) = n - 1},
                                     line \in FileLines}

\* the contents of the files of the model
AllFileTexts == FileTexts(MaxLogs)
RefillTexts == FileTexts(MaxRefill)

Call(op, text, numeral, file, before, out) ==
    [op |-> op, text |-> text, numeral |-> numeral, file |-> file, before |-> before,
     raised |-> out.raised, ret |-> out.ret, diag |-> out.diag, opened |-> out.opened]

\* __init__ raised: there is no store to call
StoreExists == ~(scall.op = "__init__" /\ scall.raised # "")

\* the filter engine as the specifications of the store leave it: untouched
EngineIdle ==
    /\ ChainInit
    /\ IoIdle
    /\ given = PyNone
    /\ flt = NewFilter("MovingMedian")
    /\ res = NoResult
    /\ pc = "idle"

\* JsonParser() or JsonParser(filename), the file holding any lines
InitStore ==
    /\ EngineIdle
    /\ fg = NoFrame
    /\ fed = <<>>
    /\ \E name \in Filenames \cup {""}, lines \in AllFileTexts :
          \E k \in Yielded(lines) :
              /\ ~(EndsWithJson(name) /\ Openable(name)) => lines = <<>>
              /\ filename = name
              /\ logs = JsonParserInit(name, lines, k).logs
              /\ scall = Call("__init__", "", FALSE, [name |-> name, lines |-> lines], <<>>,
                              JsonParserInit(name, lines, k).out)

\* parse_line(line)
ParseLine ==
    \E line \in Lines :
        /\ StoreExists
        /\ Len(logs) < MaxLogs
        /\ logs' = parse_line(logs, line)
        /\ scall' = Call("parse_line", line, FALSE, NoFile, logs, Outcome("", <<>>, <<>>, FALSE))
        /\ UNCHANGED <<filename, fg, fed>>
        /\ UNCHANGED filterVars
        /\ UNCHANGED chainVars
        /\ UNCHANGED ioVars

\* parse_file(), the file of self.filename holding any lines by now
ParseFile ==
    \E lines \in RefillTexts :
        \E k \in Yielded(lines) :
            /\ StoreExists
            /\ Len(logs) + Len(lines) <= MaxLogs
            /\ ~Openable(filename) => lines = <<>>
            /\ logs' = parse_file(logs, filename, lines, k).logs
            /\ scall' = Call("parse_file", "", FALSE, [name |-> filename, lines |-> lines],
                             logs, parse_file(logs, filename, lines, k).out)
            /\ UNCHANGED <<filename, fg, fed>>
            /\ UNCHANGED filterVars
            /\ UNCHANGED chainVars
            /\ UNCHANGED ioVars

\* extract_topics()
ExtractTopics ==
    /\ StoreExists
    /\ scall' = Call("extract_topics", "", FALSE, NoFile, logs, extract_topics(logs))
    /\ UNCHANGED <<logs, filename, fg, fed>>
    /\ UNCHANGED filterVars
    /\ UNCHANGED chainVars
    /\ UNCHANGED ioVars

\* get_topic_values(topic, numeral)
GetTopicValues ==
    \E topic \in Topics, numeral \in BOOLEAN :
        /\ StoreExists
        /\ scall' = Call("get_topic_values", topic, numeral, NoFile, logs,
                         ValuesOutcome(get_topic_values(logs, topic, numeral)))
        /\ UNCHANGED <<logs, filename, fg, fed>>
        /\ UNCHANGED filterVars
        /\ UNCHANGED chainVars
        /\ UNCHANGED ioVars

\* clear_all()
ClearAll ==
    /\ StoreExists
    /\ logs' = clear_all(logs)
    /\ scall' = Call("clear_all", "", FALSE, NoFile, logs, Outcome("", <<>>, <<>>, FALSE))
    /\ UNCHANGED <<filename, fg, fed>>
    /\ UNCHANGED filterVars
    /\ UNCHANGED chainVars
    /\ UNCHANGED ioVars

NextStore == ParseLine \/ ParseFile \/ ExtractTopics \/ GetTopicValues \/ ClearAll

SpecStore == InitStore /\ [][NextStore]_vars
-----------------------------------------------------------------------------
(* The store as the claims state it, defined without the code's loops *)

AfterCall(op) == scall.op = op /\ StoreExists

\* a record is a mapping; it contains a topic when the topic is one of its keys
IsMapping(rec) == rec.t = "dict"
HasTopic(rec, topic) ==
    IsMapping(rec) /\ \E i \in DOMAIN rec.items : rec.items[i][1] = topic
ValueOf(rec, topic) ==
    rec.items[CHOOSE i \in DOMAIN rec.items : rec.items[i][1] = topic][2]

\* the values that have a float conversion: numbers, booleans, numeric texts
Convertible(v) == v.t \in {"num", "bool"} \/ (v.t = "str" /\ v.s \in {"1.5"})
FloatOf(v) == IF v.t = "str" THEN <<3, 2>> ELSE v.n

\* the records of recs that satisfy Keep, in their order
Selected(recs, Keep(_)) == SelectSeq(recs, Keep)

\* the numeric projection of recs on topic, and the values it drops
NumericSpec(recs, topic) ==
    LET Keep(rec) == HasTopic(rec, topic) /\ Convertible(ValueOf(rec, topic))
        kept == Selected(recs, Keep)
    IN  [i \in DOMAIN kept |-> FloatOf(ValueOf(kept[i], topic))]
DroppedSpec(recs, topic) ==
    LET Drop(rec) == HasTopic(rec, topic) /\ ~Convertible(ValueOf(rec, topic))
        dropped == Selected(recs, Drop)
    IN  [i \in DOMAIN dropped |-> ValueOf(dropped[i], topic)]

\* C11: get_topic_values(topic, True) returns, in arrival order, the float
\* conversion of the value of every record that contains the topic and whose
\* value converts; records without the topic and values that do not convert
\* are left out, each dropped value printing one diagnostic.
C11_NumericValuesInArrivalOrder ==
    (AfterCall("get_topic_values") /\ scall.numeral) =>
        /\ scall.raised = ""
        /\ scall.ret = NumericSpec(logs, scall.text)
        /\ scall.diag = DroppedSpec(logs, scall.text)

\* the values recs hold under topic, as they are, in arrival order
OriginalSpec(recs, topic) ==
    LET Keep(rec) == HasTopic(rec, topic)
        kept == Selected(recs, Keep)
    IN  [i \in DOMAIN kept |-> ValueOf(kept[i], topic)]

\* C12: get_topic_values(topic, False) returns, in arrival order, the
\* unconverted value of every record that contains the topic.
C12_OriginalValuesWhenNotNumeric ==
    (AfterCall("get_topic_values") /\ ~scall.numeral) =>
        /\ scall.raised = ""
        /\ scall.ret = OriginalSpec(logs, scall.text)

IsPrefix(s, t) == Len(s) <= Len(t) /\ SubSeq(t, 1, Len(s)) = s

\* C13: the store is append-only.  An ingest (the constructor's load,
\* parse_file, parse_line) leaves the records it found as a prefix of the
\* records it leaves; extract_topics and get_topic_values leave the records
\* as they were; only clear_all removes records, and it leaves none, so that
\* extract_topics on the cleared store returns no topic.
C13_StoreIsAppendOnly ==
    StoreExists =>
        /\ scall.op \in {"__init__", "parse_file", "parse_line"} =>
              IsPrefix(scall.before, logs)
        /\ scall.op \in {"extract_topics", "get_topic_values"} => logs = scall.before
        /\ scall.op = "clear_all" =>
              logs = <<>> /\ extract_topics(logs) = Outcome("", <<>>, <<>>, FALSE)
        /\ (scall.op = "extract_topics" /\ scall.before = <<>>) =>
              scall.raised = "" /\ scall.ret = <<>>

\* clear_all on a store that held several records
C13_Witness == AfterCall("clear_all") /\ Len(scall.before) >= 2

RECURSIVE KeysInOrder(_)
\* the keys of the records of recs, record after record, key after key
KeysInOrder(recs) ==
    IF recs = <<>> THEN <<>>
    ELSE (IF IsMapping(Head(recs))
          THEN [i \in DOMAIN Head(recs).items |-> Head(recs).items[i][1]]
          ELSE <<>>) \o KeysInOrder(Tail(recs))

FirstAt(seq, x) == CHOOSE i \in DOMAIN seq : seq[i] = x /\ \A j \in 1..(i - 1) : seq[j] # x

\* C14: extract_topics returns exactly the keys of the records ingested so
\* far, each once, ordered by first appearance (record order, then key order
\* inside a record).
C14_TopicsAreKeysInFirstSeenOrder ==
    AfterCall("extract_topics") =>
        /\ scall.raised = ""
        /\ Range(scall.ret) = Range(KeysInOrder(logs))
        /\ \A i, j \in DOMAIN scall.ret :
              i < j => /\ scall.ret[i] # scall.ret[j]
                       /\ FirstAt(KeysInOrder(logs), scall.ret[i])
                            < FirstAt(KeysInOrder(logs), scall.ret[j])

\* the texts that begin with the object-opening marker and denote an object
TextIsRecord(text) ==
    text \in {"{\"a\":1}", "{\"a\":2}", "{\"a\": 1, \"b\": \"x\"}",
              "{\"b\": \"1.5\", \"a\": null, \"c\": true}"}

\* C15: parse_line(text) appends exactly one record, the object the text
\* denotes, when the text begins with "{" and parses; otherwise it leaves
\* the records as they were; it never raises.
C15_ParseLineAppendsOneRecordOrNothing ==
    AfterCall("parse_line") =>
        /\ scall.raised = ""
        /\ TextIsRecord(scall.text) =>
              /\ Len(logs) = Len(scall.before) + 1
              /\ SubSeq(logs, 1, Len(scall.before)) = scall.before
              /\ IsMapping(logs[Len(logs)])
              /\ logs[Len(logs)] = json_loads(scall.text).val
        /\ ~TextIsRecord(scall.text) => logs = scall.before

\* a text that begins with "{" and does not parse, handed to a store that
\* holds records
C15_Witness ==
    AfterCall("parse_line") /\ scall.text = "{\"a\":1" /\ Len(scall.before) >= 1

\* the lines that are well-formed JSON documents; plain text, a truncated
\* object and bytes that are no text are malformed
WellFormed(line) ==
    line \in {"{\"a\":1}", "{\"a\":2}", "{\"a\": 1, \"b\": \"x\"}",
              "{\"b\": \"1.5\", \"a\": null, \"c\": true}", " {\"a\":1}", "5", "[\"a\"]"}

\* the documents of the well-formed lines, in file order
WellFormedSpec(lines) ==
    LET kept == SelectSeq(lines, WellFormed)
    IN  [i \in DOMAIN kept |-> json_loads(kept[i]).val]

RECURSIVE MalformedSpec(_, _)
\* the indices (from 0) of the malformed lines among the first n, ascending
MalformedSpec(lines, n) ==
    IF n = 0 THEN <<>>
    ELSE MalformedSpec(lines, n - 1)
            \o (IF WellFormed(lines[n]) THEN <<>> ELSE <<n - 1>>)

\* a load that found its file: the constructor's or a call of parse_file
AfterLoad ==
    /\ StoreExists
    /\ scall.op \in {"__init__", "parse_file"}
    /\ scall.file.name # ""
    /\ scall.opened
    /\ Openable(scall.file.name)

ExampleLines == <<"{\"a\":1}", "not json", "{\"a\":2}">>

\* C16: a load ingests exactly the well-formed lines of the file, in file
\* order, prints for each malformed line one diagnostic that names its index,
\* and a malformed line never makes it raise.  The lines {"a":1}, not json,
\* {"a":2} give the topics [a], the values [1.0, 2.0] and one diagnostic.
C16_LoadKeepsWellFormedLinesAndSkipsTheRest ==
    AfterLoad =>
        /\ scall.raised = ""
        /\ logs = scall.before \o WellFormedSpec(scall.file.lines)
        /\ scall.diag = MalformedSpec(scall.file.lines, Len(scall.file.lines))
        /\ (scall.file.lines = ExampleLines /\ scall.before = <<>>) =>
              /\ extract_topics(logs) = Outcome("", <<"a">>, <<>>, FALSE)
              /\ get_topic_values(logs, "a", TRUE).raised = ""
              /\ get_topic_values(logs, "a", TRUE).ret = <<One, Rat(2)>>
              /\ Len(scall.diag) = 1

RECURSIVE ByParseLine(_, _)
\* the records parse_line leaves when called on each line of lines in order
ByParseLine(recs, lines) ==
    IF lines = <<>> THEN recs
    ELSE ByParseLine(parse_line(recs, Head(lines)), Tail(lines))

\* C17: loading lines from a file leaves the store with the same records as
\* calling parse_line on each of the lines in order.
C17_LoadEqualsParseLinePerLine ==
    AfterLoad => logs = ByParseLine(scall.before, scall.file.lines)

\* the paths with the recognized suffix, and the paths that can be opened
RecognizedSuffix(path) == path \in {"run.json", "gone.json"}
CanBeOpened(path) == path \in {"run.json", "run.txt"}

\* a load: the constructor given a path, or parse_file
ALoad == (scall.op = "__init__" /\ scall.file.name # "") \/ scall.op = "parse_file"

\* C18: the constructor given a path without the recognized suffix raises
\* the validation error (IOError) before any file is opened and ingests
\* nothing; a load of a path that cannot be opened raises the not-found
\* error (FileNotFoundError) and ingests nothing; a load raises in no other
\* case.
C18_LoadRaisesOnlyOnSuffixOrOpen ==
    ALoad =>
        /\ (scall.op = "__init__" /\ ~RecognizedSuffix(scall.file.name)) =>
              scall.raised = "IOError" /\ ~scall.opened /\ logs = <<>>
        /\ ((scall.op = "parse_file" \/ RecognizedSuffix(scall.file.name))
               /\ ~CanBeOpened(scall.file.name)) =>
              scall.raised = "FileNotFoundError" /\ logs = scall.before
        /\ scall.raised # "" =>
              \/ scall.op = "__init__" /\ ~RecognizedSuffix(scall.file.name)
              \/ ~CanBeOpened(scall.file.name)

-----------------------------------------------------------------------------
(* SpecSerial: the thread of SerialInterface.readSerial feeds a store       *)
(* through parse_line while the foreground runs get_topic_values on it.     *)
(* A list append and one step of a list iterator are atomic under the       *)
(* interpreter lock; the two threads interleave between them.               *)

\* the lines the port may deliver
PortLines ==
    {"{\"a\":1}", "{\"a\": 1, \"b\": \"x\"}", "{\"b\": \"1.5\", \"a\": null, \"c\": true}",
     "5", Undecodable}

\* a list iterator that stops one element early
IterStopsBeforeLast(idx, self_logs) == idx + 1 < Len(self_logs)

\* for log in self.logs: the iterator has a next element while its index is
\* below the length the list has now
IterHasNext(idx, self_logs) == idx < Len(self_logs)

\* startSerialConnection: self.jsonLogs[port] = JsonParser()
InitSerial ==
    /\ EngineIdle
    /\ logs = <<>>
    /\ filename = ""
    /\ scall = NoCall
    /\ fg = NoFrame
    /\ fed = <<>>

\* one turn of the loop of readSerial: a line is read, decoded and handed to
\* parse_line; a line that does not decode is dropped by the except
ReadSerial ==
    \E line \in PortLines :
        /\ Len(fed) < MaxFed
        /\ fed' = Append(fed, line)
        /\ logs' = IF line = Undecodable THEN logs ELSE parse_line(logs, line)
        /\ UNCHANGED <<filename, scall, fg>>
        /\ UNCHANGED filterVars
        /\ UNCHANGED chainVars
        /\ UNCHANGED ioVars

\* the foreground enters get_topic_values(topic, True): values = []
FgCall ==
    \E topic \in Topics :
        /\ fg.pc \in {"idle", "done"}
        /\ fg' = [pc |-> "loop", topic |-> topic, idx |-> 0, start |-> Len(logs),
                  acc |-> NoValues]
        /\ UNCHANGED <<logs, filename, scall, fed>>
        /\ UNCHANGED filterVars
        /\ UNCHANGED chainVars
        /\ UNCHANGED ioVars

\* one iteration of its loop, on the next record of the list as it is now
FgStep ==
    /\ fg.pc = "loop"
    /\ fg.acc.raised = ""
    /\ IterHasNext(fg.idx, logs)
    /\ fg' = [fg EXCEPT !.acc = ValuesStep(@, logs[fg.idx + 1], fg.topic, TRUE),
                        !.idx = @ + 1]
    /\ UNCHANGED <<logs, filename, scall, fed>>
    /\ UNCHANGED filterVars
    /\ UNCHANGED chainVars
    /\ UNCHANGED ioVars

\* the iterator is exhausted (or an exception left the loop): return(values)
FgReturn ==
    /\ fg.pc = "loop"
    /\ fg.acc.raised # "" \/ ~IterHasNext(fg.idx, logs)
    /\ fg' = [fg EXCEPT !.pc = "done"]
    /\ UNCHANGED <<logs, filename, scall, fed>>
    /\ UNCHANGED filterVars
    /\ UNCHANGED chainVars
    /\ UNCHANGED ioVars

NextSerial == ReadSerial \/ FgCall \/ FgStep \/ FgReturn

SpecSerial == InitSerial /\ [][NextSerial]_vars

\* the records of the lines of fed that are records, in arrival order
RecordsOf(lines) ==
    LET kept == SelectSeq(lines, TextIsRecord)
    IN  [i \in DOMAIN kept |-> json_loads(kept[i]).val]

\* C19: while the reader thread appends through parse_line and the
\* foreground runs get_topic_values(topic, True), the records are at every
\* moment the records of the accepted lines, each once, in arrival order; and
\* a call returns a list of its own that is the numeric projection of a
\* prefix of the records, a prefix that holds every record present when the
\* call began.
C19_InterleavedAppendAndRead ==
    /\ logs = RecordsOf(fed)
    /\ fg.pc = "done" =>
          /\ fg.acc.raised = ""
          /\ fg.start <= fg.idx /\ fg.idx <= Len(logs)
          /\ fg.acc.ret = NumericSpec(SubSeq(logs, 1, fg.idx), fg.topic)

\* a call that saw a record appended while it ran, and returned a list that
\* a record appended after its return is not part of
C19_Witness ==
    /\ fg.pc = "done"
    /\ 1 <= fg.start /\ fg.start < fg.idx /\ fg.idx < Len(logs)
    /\ fg.acc.ret # NumericSpec(logs, fg.topic)
    /\ Len(fg.acc.ret) >= 2

-----------------------------------------------------------------------------
(* SpecEdit: the chain under the operations that create, edit and remove    *)
(* filters, without FiltersModel.apply.                                     *)

NextEdit == OnAddFilter \/ SetFilter \/ SetParam \/ Delete

SpecEdit == Init /\ [][NextEdit]_vars

\* the five kinds of filter
KindsSpec ==
    {"MovingMedian", "MovingAverage", "MedianCentering", "MeanCentering", "MinCentering"}

\* a filter as its class makes it by default: no input; width 21 and ratio 1
\* for MovingMedian, width 21 and ratio 0 for MovingAverage
HasDefaults(f) ==
    /\ f.input = PyNone
    /\ f.kind = "MovingMedian" => f.width = 21 /\ f.ratio = One
    /\ f.kind = "MovingAverage" => f.width = 21 /\ f.ratio = Zero

\* all boxes but the k-th are what they were
OthersUnchanged(k) ==
    /\ Len(filters') = Len(filters)
    /\ \A j \in DOMAIN filters : j # k => filters'[j] = filters[j]

\* C20: the registry enumerates exactly the five kinds, each once; a filter
\* created by its kind name (by onAddFilter for a new box, by setFilter for
\* the box whose selection changed) is of a registered kind and has the
\* default parameters, whatever was typed into the filters created before;
\* and creating or editing a filter leaves every other filter as it was.
C20_RegistryCreatesFreshDefaults ==
    [][ /\ Len(AvailableFilters) = 5
        /\ Range(AvailableFilters) = KindsSpec
        /\ last'.op = "onAddFilter" =>
              /\ Len(filters') = Len(filters) + 1
              /\ SubSeq(filters', 1, Len(filters)) = filters
              /\ filters'[Len(filters')].filter.kind \in KindsSpec
              /\ HasDefaults(filters'[Len(filters')].filter)
        /\ last'.op = "setFilter" =>
              \E k \in DOMAIN filters :
                  /\ OthersUnchanged(k)
                  /\ filters'[k].filter.kind \in KindsSpec \ {filters[k].filter.kind}
                  /\ HasDefaults(filters'[k].filter)
        /\ last'.op = "setParam" => \E k \in DOMAIN filters : OthersUnchanged(k)
      ]_vars

\* a filter just created with its defaults next to one whose width and
\* ratio were typed
C20_Witness ==
    /\ last.op = "setFilter"
    /\ Len(filters) = 2
    /\ filters[1].filter.kind = "MovingMedian"
    /\ filters[1].filter.width = 1 /\ filters[1].filter.ratio = <<1, 2>>
    /\ filters[2].filter.kind = "MovingMedian"
    /\ HasDefaults(filters[2].filter)

-----------------------------------------------------------------------------
(* SpecPopup: the operations of SpecEdit, and setParam called for a name    *)
(* the popup holds no entry for: the editingFinished signal of an entry     *)
(* that updateParams has removed, or any other caller of setParam.          *)

\* the names setParam may be called with
ParamNames == {"width", "ratio", "gain"}

\* the params a filter declares
Declared(f) == {p[1] : p \in f._userParams}

\* setParam(param, outputType) on the popup of the k-th box, param being no
\* declared param of its filter
SetUndeclaredParam ==
    \E k \in DOMAIN filters, param \in ParamNames, outputType \in {"int", "float"},
       valStr \in Texts :
        /\ param \notin Declared(filters[k].filter)
        /\ filters' = [filters EXCEPT ![k] =
                          SetParamOf(@, param, outputType, valStr).box]
        /\ last' = Did("setUndeclaredParam",
                       SetParamOf(filters[k], param, outputType, valStr).alert)
        /\ Forget
        /\ UNCHANGED filterVars
        /\ UNCHANGED storeVars
        /\ UNCHANGED ioVars

NextPopup == NextEdit \/ SetUndeclaredParam

SpecPopup == Init /\ [][NextPopup]_vars

\* apply() reads the attributes of the filter and its input, nothing else:
\* two filters with the same attributes return the same, and filters whose
\* attributes differ are compared on every input
SameApply(f, g) ==
    \/ g = f
    \/ /\ DOMAIN g = DOMAIN f
       /\ \A inputData \in YData :
             FilterApply([g EXCEPT !.input = inputData])
                 = FilterApply([f EXCEPT !.input = inputData])

\* C21: setting a parameter whose name the filter does not declare is a
\* no-op: every filter keeps its declared params and its attributes, its
\* next apply() returns what it would have returned, and no alert is shown.
\* A popup holds entries for the declared params of its filter only, and a
\* declared param is an attribute of the filter.
C21_UndeclaredParamIsNoOp ==
    [][ /\ \A k \in DOMAIN filters' :
              /\ {e[1] : e \in filters'[k].entries} = Declared(filters'[k].filter)
              /\ \A param \in Declared(filters'[k].filter) :
                    HasAttr(filters'[k].filter, param)
        /\ last'.op = "setUndeclaredParam" =>
              /\ ~last'.alert
              /\ DOMAIN filters' = DOMAIN filters
              /\ \A k \in DOMAIN filters :
                    /\ filters'[k].id = filters[k].id
                    /\ filters'[k].entries = filters[k].entries
                    /\ Declared(filters'[k].filter) = Declared(filters[k].filter)
                    /\ SameApply(filters[k].filter, filters'[k].filter)
      ]_vars

\* setParam('width', ...) reaching a centering filter, which has no width,
\* next to a filter whose width was typed
C21_Witness ==
    /\ last.op = "setUndeclaredParam"
    /\ Len(filters) = 2
    /\ filters[1].filter.kind = "MovingAverage" /\ filters[1].filter.width = 1
    /\ filters[2].filter.kind = "MeanCentering"

(***************************************************************************)
(* The order of the chain under add, delete, setFilter and setParam        *)
(***************************************************************************)

\* the identities of the boxes of a chain, in chain order
IdsOf(boxes) == [k \in DOMAIN boxes |-> boxes[k].id]

\* the chain without its k-th box
Without(boxes, k) == SubSeq(boxes, 1, k - 1) \o SubSeq(boxes, k + 1, Len(boxes))

\* C22: the chain holds the boxes added and not deleted, in the order they
\* were added: onAddFilter puts one new box behind the boxes there were,
\* deleting a box takes that box out and leaves the others as they were and
\* in their order, and setFilter and setParam leave every box at its place.
C22_ChainKeepsAddedOrder ==
    [][ /\ \A i, j \in DOMAIN filters' : filters'[i].id = filters'[j].id => i = j
        /\ \A k \in DOMAIN filters :
              RemoveBox(filters, filters[k].id) = Without(filters, k)
        /\ last'.op = "onAddFilter" =>
              /\ Len(filters') = Len(filters) + 1
              /\ SubSeq(filters', 1, Len(filters)) = filters
              /\ \A k \in DOMAIN filters : filters[k].id # filters'[Len(filters')].id
        /\ last'.op = "delete" =>
              \E k \in DOMAIN filters : filters' = Without(filters, k)
        /\ last'.op \in {"setFilter", "setParam"} => IdsOf(filters') = IdsOf(filters)
      ]_vars

\* the first of two boxes was deleted: the second box is now the first
C22_Witness ==
    /\ last.op = "delete"
    /\ Len(filters) = 1
    /\ filters[1].id = 2

(***************************************************************************)
(* The length of what a moving filter returns                              *)
(***************************************************************************)

\* C30: for every integer width, 0 and negative ones included, and every
\* input, what MovingMedian.apply() or MovingAverage.apply() returns is a
\* sequence no longer than the input.
C30_MovingOutputNoLongerThanInput ==
    (/\ pc = "applied"
     /\ flt.kind \in MovingKinds
     /\ res.raised = ""
     /\ flt.input.tag = "list")
        => /\ res.ret.tag = "list"
           /\ Len(res.ret.v) <= Len(flt.input.v)

(***************************************************************************)
(* The shape of the records of a store                                     *)
(***************************************************************************)

\* C27: after any sequence of loads from a file and of parse_line calls,
\* every element of the records of the store is a mapping from topic to
\* value, and extract_topics and get_topic_values end without raising.
C27_EveryRecordIsAMapping ==
    StoreExists =>
        /\ \A i \in DOMAIN logs : IsMapping(logs[i])
        /\ extract_topics(logs).raised = ""
        /\ \A topic \in Topics, numeral \in BOOLEAN :
              get_topic_values(logs, topic, numeral).raised = ""

-----------------------------------------------------------------------------
(* SpecMqtt: the MQTT dock of a connected client.  The handlers of the GUI  *)
(* thread (scan, getTopics, onTopicSelected, clearData) run one at a time;  *)
(* onMessage runs in the network thread of the client and may fall between  *)
(* two statements of subscribe.  The broker hands a published message to    *)
(* the client when the client holds a subscription that matches its topic.  *)

MaxSent == 3
MaxSubscribed == 3

\* payloads: the bytes of a numeral and bytes float() rejects
Payloads == {"1", "x"}

\* the broker's test: '#' matches every topic, a plain filter matches itself
Matches(subs, topic) == "#" \in subs \/ topic \in subs

\* MqttInterface.subscribe up to subscribedTopics.append(topic)
SubscribeCall(m, topic) ==
    [m EXCEPT !.subs = IF ~m.isScanOn THEN @ \cup {topic} ELSE @,
              !.subscribedTopics = Append(@, topic),
              !.pc = "subscribing"]

\* MqttInterface.subscribe from self.data[topic] = [] on
SubscribeReturn(m, topic) ==
    [m EXCEPT !.data[topic] = PyList(<<>>), !.pc = "idle", !.op = "subscribe"]

\* MqttInterface.onMessage
OnMessage(m, topic, payload) ==
    [m EXCEPT !.topics = IF topic \in Range(@) THEN @ ELSE Append(@, topic),
              !.data[topic] =
                  IF topic \in Range(m.subscribedTopics)
                  THEN PyList(Append(@.v, payload))
                  ELSE @]

\* float(val) of a decoded payload
PayloadFloat(payload) ==
    IF payload = "1" THEN [ok |-> TRUE, val |-> One] ELSE [ok |-> FALSE, val |-> Zero]

RECURSIVE PayloadValues(_, _)
PayloadValues(payloads, numeral) ==
    IF payloads = <<>> THEN <<>>
    ELSE (IF numeral /\ PayloadFloat(Head(payloads)).ok
          THEN <<PayloadFloat(Head(payloads)).val>> ELSE <<>>)
            \o PayloadValues(Tail(payloads), numeral)

\* MqttInterface.get_topic_values(topic, numeral)
MqttGetTopicValues(m, topic, numeral) ==
    IF m.data[topic].tag = "None" THEN [raised |-> "KeyError", ret |-> <<>>]
    ELSE [raised |-> "", ret |-> PayloadValues(m.data[topic].v, numeral)]

\* MqttDock.onTopicSelected, on currentIndexChanged to the i-th item
OnTopicSelected(m, i) ==
    SubscribeCall([m EXCEPT !.index = i, !.currentTopic = m.items[i]], m.items[i])

\* the topics of the interface the combo box does not list yet, in order
NewItems(m) == SelectSeq(m.topics, LAMBDA t : t \notin Range(m.items))

MqttUnchanged ==
    /\ UNCHANGED <<serial, canvas>>
    /\ UNCHANGED filterVars
    /\ UNCHANGED chainVars
    /\ UNCHANGED storeVars

\* MqttDock.scan: starts the scan, or stops it
MqttScan ==
    /\ mqtt.pc = "idle"
    /\ mqtt' = [mqtt EXCEPT !.isScanOn = ~@,
                            !.subs = IF mqtt.isScanOn THEN @ \ {"#"} ELSE @ \cup {"#"},
                            !.op = "scan"]
    /\ MqttUnchanged

\* MqttDock.getTopics, on the refresh timer: the first item added to an
\* empty combo box becomes the current one, which selects its topic
MqttGetTopics ==
    /\ mqtt.pc = "idle"
    /\ NewItems(mqtt) # <<>>
    /\ LET added == [mqtt EXCEPT !.items = @ \o NewItems(mqtt), !.op = "getTopics"]
       IN  mqtt' = IF mqtt.items = <<>> THEN OnTopicSelected(added, 1) ELSE added
    /\ MqttUnchanged

\* the user picks another item of the combo box
MqttSelect ==
    \E i \in DOMAIN mqtt.items :
        /\ mqtt.pc = "idle"
        /\ i # mqtt.index
        /\ Len(mqtt.subscribedTopics) < MaxSubscribed
        /\ mqtt' = OnTopicSelected([mqtt EXCEPT !.op = "select"], i)
        /\ MqttUnchanged

\* subscribe runs to its end
MqttSubscribed ==
    /\ mqtt.pc = "subscribing"
    /\ mqtt' = SubscribeReturn(mqtt, mqtt.currentTopic)
    /\ MqttUnchanged

\* a message is published at the broker; the client's thread runs onMessage
\* when a subscription of the client matches
MqttPublish ==
    \E topic \in MqttTopics, payload \in Payloads :
        /\ mqtt.sent < MaxSent
        /\ LET m == [mqtt EXCEPT !.sent = @ + 1,
                                 !.msg = [topic |-> topic, payload |-> payload,
                                          delivered |-> Matches(mqtt.subs, topic)]]
           IN  mqtt' = IF Matches(mqtt.subs, topic) THEN OnMessage(m, topic, payload) ELSE m
        /\ MqttUnchanged

\* AppModel.clearData with MQTT as the plot source: sourceLog is the
\* MqttInterface, which is no JsonParser, and nothing is cleared
MqttClearData ==
    /\ mqtt.pc = "idle"
    /\ mqtt.op # "clearData"
    /\ mqtt' = [mqtt EXCEPT !.op = "clearData"]
    /\ MqttUnchanged

NextMqtt ==
    \/ MqttScan \/ MqttGetTopics \/ MqttSelect \/ MqttSubscribed
    \/ MqttPublish \/ MqttClearData

SpecMqtt == Init /\ [][NextMqtt]_vars

\* subscribe(topic) has returned: the topic is among the subscribed ones and
\* no subscribe call for it is under way
Subscribed(m, topic) ==
    /\ topic \in Range(m.subscribedTopics)
    /\ ~(m.pc = "subscribing" /\ m.currentTopic = topic)

\* C23: once subscribe(topic) has returned, every message published on the
\* topic is appended to data[topic], whatever the scan did before or since.
C23_SubscribedTopicIsCollected ==
    [][ \A topic \in MqttTopics :
          (/\ mqtt'.sent = mqtt.sent + 1
           /\ mqtt'.msg.topic = topic
           /\ Subscribed(mqtt, topic))
             => /\ mqtt.data[topic].tag = "list"
                /\ mqtt'.data[topic] = PyList(Append(mqtt.data[topic].v, mqtt'.msg.payload))
      ]_vars

\* C29: data[topic] only grows: what it held stays, as a prefix of what it
\* holds after any step.
C29_CollectedPayloadsOnlyGrow ==
    [][ \A topic \in MqttTopics :
          mqtt.data[topic].tag = "list"
             => /\ mqtt'.data[topic].tag = "list"
                /\ IsPrefix(mqtt.data[topic].v, mqtt'.data[topic].v)
      ]_vars

\* C25 (MQTT source): right after clearData, get_topic_values of the source
\* returns nothing for every topic the source holds.
C25_ClearDataErasesTheSource ==
    mqtt.op = "clearData" =>
        \A topic \in MqttTopics :
            mqtt.data[topic].tag = "list"
               => MqttGetTopicValues(mqtt, topic, TRUE) = [raised |-> "", ret |-> <<>>]

-----------------------------------------------------------------------------
(* SpecPorts: SerialInterface on one port.  The GUI thread calls            *)
(* startSerialConnection and stopSerialConnection; every thread started by  *)
(* a start call runs readSerial, statement by statement, interleaved with   *)
(* the GUI thread and with the other reader threads.  connectedPorts is 0   *)
(* when the port is not a key of the dict and else the thread stored under  *)
(* it; jsonLogs is 0 when the port has no store and else the store; the     *)
(* k-th start call starts thread k and creates store k.                     *)

MaxStarts == 2
MaxRead == 2

\* the lines the device sends while a connection is open
DeviceLines == {"{\"a\":1}", "{\"a\":2}"}

\* threading.Thread(target = self.readSerial, args = (port,)), started
NewThread == [pc |-> "open", line |-> "", store |-> 0, stopped |-> FALSE]

PortsUnchanged ==
    /\ UNCHANGED <<mqtt, canvas>>
    /\ UNCHANGED filterVars
    /\ UNCHANGED chainVars
    /\ UNCHANGED storeVars

\* startSerialConnection(port) up to t.start()
StartSerialConnection ==
    /\ serial.main = "idle"
    /\ serial.connectedPorts = 0
    /\ Len(serial.threads) < MaxStarts
    /\ serial' = [serial EXCEPT !.threads = Append(@, NewThread),
                                !.connectedPorts = Len(serial.threads) + 1,
                                !.main = "started",
                                !.op = "start"]
    /\ PortsUnchanged

\* startSerialConnection(port): self.jsonLogs[port] = JsonParser()
StartAssignsStore ==
    /\ serial.main = "started"
    /\ serial' = [serial EXCEPT !.stores = Append(@, <<>>),
                                !.jsonLogs = Len(serial.stores) + 1,
                                !.main = "idle",
                                !.op = "store"]
    /\ PortsUnchanged

\* stopSerialConnection(port): del self.connectedPorts[port]
StopSerialConnection ==
    /\ serial.main = "idle"
    /\ serial.connectedPorts # 0
    /\ serial' = [serial EXCEPT !.threads[serial.connectedPorts].stopped = TRUE,
                                !.connectedPorts = 0,
                                !.op = "stop"]
    /\ PortsUnchanged

\* readSerial: p = Serial(port, ...), which opens the port or fails
ThreadOpens ==
    \E i \in DOMAIN serial.threads, ok \in BOOLEAN :
        /\ serial.threads[i].pc = "open"
        /\ serial' = [serial EXCEPT !.threads[i].pc = IF ok THEN "check" ELSE "done",
                                    !.op = "open", !.by = i]
        /\ PortsUnchanged

\* readSerial: while (port in self.connectedPorts)
ThreadChecks ==
    \E i \in DOMAIN serial.threads :
        /\ serial.threads[i].pc = "check"
        /\ serial' = [serial EXCEPT
                        !.threads[i].pc = IF serial.connectedPorts # 0 THEN "read" ELSE "done",
                        !.op = "check", !.by = i]
        /\ PortsUnchanged

\* readSerial: line = p.readline().decode('utf-8')
ThreadReads ==
    \E i \in DOMAIN serial.threads, line \in DeviceLines :
        /\ serial.threads[i].pc = "read"
        /\ serial.nread < MaxRead
        /\ serial' = [serial EXCEPT !.threads[i].pc = "lookup",
                                    !.threads[i].line = line,
                                    !.nread = @ + 1,
                                    !.op = "read", !.by = i]
        /\ PortsUnchanged

\* readSerial: self.jsonLogs[port], a KeyError when the port has no store;
\* the except drops the line
ThreadLooksUpStore ==
    \E i \in DOMAIN serial.threads :
        /\ serial.threads[i].pc = "lookup"
        /\ serial' = IF serial.jsonLogs = 0
                     THEN [serial EXCEPT !.threads[i].pc = "check",
                                         !.op = "dropped", !.by = i]
                     ELSE [serial EXCEPT !.threads[i].pc = "parse",
                                         !.threads[i].store = serial.jsonLogs,
                                         !.op = "lookup", !.by = i]
        /\ PortsUnchanged

\* readSerial: .parse_line(line) on the store that was looked up
ThreadParsesLine ==
    \E i \in DOMAIN serial.threads :
        /\ serial.threads[i].pc = "parse"
        /\ serial' = [serial EXCEPT
                        !.stores[serial.threads[i].store] =
                            parse_line(@, serial.threads[i].line),
                        !.threads[i].pc = "check",
                        !.op = "ingested", !.by = i]
        /\ PortsUnchanged

NextPorts ==
    \/ StartSerialConnection \/ StartAssignsStore \/ StopSerialConnection
    \/ ThreadOpens \/ ThreadChecks \/ ThreadReads \/ ThreadLooksUpStore
    \/ ThreadParsesLine

SpecPorts == Init /\ [][NextPorts]_vars

\* C24: a thread whose connection was stopped leaves the loop at its first
\* loop check after the stop, whatever start and stop calls came in between,
\* and so reads and ingests nothing after that check.
C24_StoppedThreadExitsAtNextCheck ==
    [][ \A i \in DOMAIN serial.threads :
          (/\ serial.threads[i].stopped
           /\ serial.threads[i].pc = "check"
           /\ serial'.threads[i].pc # "check")
             => serial'.threads[i].pc = "done"
      ]_vars

\* C28: when a reader thread is about to ingest the line it read, the port
\* has a store and it is the store of the start call that started the
\* thread; the line goes to that store.
C28_ReaderIngestsIntoItsOwnStore ==
    \A i \in DOMAIN serial.threads :
        /\ serial.threads[i].pc = "lookup" => serial.jsonLogs = i
        /\ serial.threads[i].pc = "parse" =>
              serial.threads[i].store = i /\ serial.jsonLogs = i

-----------------------------------------------------------------------------
(* SpecPlot: one refresh of the plot (AppModel.plotJson) with a file as     *)
(* the source, on any store parse_line can fill and any chain the filter    *)
(* dock can build, the mode and the axes being those the combo boxes show   *)
(* when the refresh runs.                                                   *)

MaxPlotLogs == 2
MaxPlotChain == 1
DEFAULT_TICK_TIME == 1

PlotModes == {"Normal", "XY", "Histogram", "2D Histogram"}
LinearPlots == {"By index", "Chronological"}

\* the lines the plotted file holds
PlotLines == {"{\"a\":1}", "{\"a\": 1, \"b\": \"x\"}", "{\"b\": \"1.5\", \"a\": null, \"c\": true}"}

RECURSIVE FedBy(_)
\* the store after parse_line on each line of lines
FedBy(lines) ==
    IF lines = <<>> THEN <<>>
    ELSE parse_line(FedBy(SubSeq(lines, 1, Len(lines) - 1)), lines[Len(lines)])

PlotStores == {FedBy(ls) : ls \in UNION {[1..n -> PlotLines] : n \in 0..MaxPlotLogs}}

\* [i for i in range(len(ydata))] and [i * tickTime for i in range(len(ydata))]
XByIndex(n) == [i \in 1..n |-> Rat(i - 1)]
XChronological(n, tickTime) == [i \in 1..n |-> RMulInt(tickTime, i - 1)]

\* the canvas after a refresh that ended with exception exc before drawing
PlotRaised(c, exc) == [c EXCEPT !.raised = exc, !.drawn = FALSE]

\* plotJson from '## Setting x data' on: the x vector for the mode, then the
\* call of the renderer with the x vector and the filtered y vector
PlotDraw(c, self_logs, mode, plotType, xTopic, yOut) ==
    LET m == [c EXCEPT !.plotMode = mode, !.xTopic = xTopic]
        xv == get_topic_values(self_logs, xTopic, TRUE)
    IN  CASE mode = "Normal" ->
               [m EXCEPT !.drawn = TRUE, !.ydata = yOut,
                         !.xdata = IF plotType = "By index" THEN XByIndex(Len(yOut))
                                   ELSE XChronological(Len(yOut), Rat(DEFAULT_TICK_TIME))]
          [] mode \in {"XY", "2D Histogram"} ->
               IF xv.raised # "" THEN PlotRaised(m, xv.raised)
               ELSE [m EXCEPT !.drawn = TRUE, !.ydata = yOut, !.xdata = xv.ret]
          [] mode = "Histogram" ->
               [m EXCEPT !.drawn = TRUE, !.ydata = yOut]

InitPlot ==
    /\ filters \in UNION {Chains(n) : n \in 0..MaxPlotChain}
    /\ ydata = PyNone
    /\ chainRes = NoResult
    /\ last = Did("init", FALSE)
    /\ given = PyNone
    /\ flt = NewFilter("MovingMedian")
    /\ res = NoResult
    /\ pc = "idle"
    /\ logs \in PlotStores
    /\ filename = "run.json"
    /\ scall = NoCall
    /\ fg = NoFrame
    /\ fed = <<>>
    /\ mqtt = MqttConnected
    /\ serial = SerialInterfaceInit
    /\ canvas = NoPlot

\* AppModel.plotJson
PlotJson ==
    \E mode \in PlotModes, plotType \in LinearPlots, xTopic \in Topics, yTopic \in Topics :
        LET yv == get_topic_values(logs, yTopic, TRUE)
            run == ChainApply(filters, PyList(yv.ret))
            c == [canvas EXCEPT !.yTopic = yTopic]
        IN  /\ last.op = "init"
            /\ last' = Did("plotJson", FALSE)
            /\ IF yv.raised # ""
               THEN /\ canvas' = PlotRaised(c, yv.raised)
                    /\ UNCHANGED <<filters, ydata, chainRes>>
               ELSE /\ ydata' = PyList(yv.ret)
                    /\ filters' = run.boxes
                    /\ chainRes' = run.out
                    /\ canvas' = IF run.out.raised # "" THEN PlotRaised(c, run.out.raised)
                                 ELSE IF ~Truthy(run.out.ret) THEN c
                                 ELSE PlotDraw(c, logs, mode, plotType, xTopic, run.out.ret.v)
            /\ UNCHANGED <<mqtt, serial>>
            /\ UNCHANGED filterVars
            /\ UNCHANGED storeVars

NextPlot == PlotJson

SpecPlot == InitPlot /\ [][NextPlot]_vars

\* C26: whenever a refresh reaches the renderer in the mode Normal, XY or
\* 2D histogram, the x vector and the filtered y vector it hands over have
\* the same length.
C26_XAndYHaveTheSameLength ==
    (canvas.drawn /\ canvas.plotMode \in {"Normal", "XY", "2D Histogram"})
        => Len(canvas.xdata) = Len(canvas.ydata)

====
